---- MODULE Spec2Model ----
(***************************************************************************)
(* Model of src/dash.py: the loader/cleaner load_data (behind              *)
(* st.cache_data) and the view/aggregator main, one run of main being one  *)
(* Streamlit script run over posts.csv.                                    *)
(*                                                                         *)
(* A CSV cell of column timestamp is a record [fmt, y, m, d, h]: fmt names *)
(* the shape of the text, the numbers are the date and hour it spells.     *)
(*   "hdr"   the literal text timestamp (a repeated header line)           *)
(*   "empty" an empty cell (read_csv gives NaN)                            *)
(*   "junk"  text no parser accepts                                        *)
(*   "isoz"  YYYY-MM-DDTHH:MM:SS+0000                                      *)
(*   "iso"   YYYY-MM-DDTHH:MM:SS                                           *)
(*   "sp"    YYYY-MM-DD HH:MM:SS                                           *)
(*   "date"  YYYY-MM-DD                                                    *)
(*   "slash" YYYY/MM/DD, which only the inference fallback parses          *)
(* A CSV cell of column followers_count is [kind, val]: kind "text" (not a *)
(* number), "empty", or "num" with value val.                              *)
(* A number that may be NaN is [nan, val]; a timestamp that may be NaT is  *)
(* [nat, aware, y, m, d, h].  Columns username and media_count are left    *)
(* out: media_count is converted exactly as followers_count is.            *)
(***************************************************************************)
EXTENDS Integers, Sequences, FiniteSets, TLC

VARIABLES file, cache, reads, loads, pc, df, ld_df, selected_years,
          df_filtered, metrics, charts, errors, yearly_posts, hourly_posts,
          heatmap_data, posts_por_mes, sizes, weekday_posts

vars == <<file, cache, reads, loads, pc, df, ld_df, selected_years,
          df_filtered, metrics, charts, errors, yearly_posts, hourly_posts,
          heatmap_data, posts_por_mes, sizes, weekday_posts>>

\* ------------------------------------------------------------- bounds
\* Longest posts.csv (data rows) of the view specification.
MaxRows == 4
\* Longest posts.csv of the loader specification.
MaxLoadRows == 3
\* Longest posts.csv of the cache specification.
MaxCacheRows == 1
\* Script runs (calls of main) of one process in the cache specification.
MaxLoads == 2

\* datetime.now().year at the time load_data runs.
CurrentYear == 2026

\* ------------------------------------------------------- calendar
\* Days from 1970-01-01 to y-m-d in the proleptic Gregorian calendar.
DaysFromCivil(y, m, d) ==
    LET yy  == IF m <= 2 THEN y - 1 ELSE y
        era == yy \div 400
        yoe == yy - era * 400
        mp  == (m + 9) % 12
        doy == (153 * mp + 2) \div 5 + d - 1
        doe == yoe * 365 + yoe \div 4 - yoe \div 100 + doy
    IN  era * 146097 + doe - 719468

weekday_order == <<"Monday", "Tuesday", "Wednesday", "Thursday", "Friday",
                   "Saturday", "Sunday">>

\* Series.dt.day_name(): 1970-01-01 was a Thursday.
DayName(y, m, d) == weekday_order[((DaysFromCivil(y, m, d) + 3) % 7) + 1]

\* Hours since the epoch of a timestamp read as UTC (utc=True: a naive
\* timestamp is taken as UTC, an aware one here already is +0000).
UtcHours(t) == DaysFromCivil(t.y, t.m, t.d) * 24 + t.h

\* datetime(2020, 3, 1, tzinfo=pytz.UTC)
PANDEMIA_INICIO == DaysFromCivil(2020, 3, 1) * 24

\* ------------------------------------------------------- cell values
NaT == [nat |-> TRUE, aware |-> FALSE, y |-> 0, m |-> 0, d |-> 0, h |-> 0]
Timestamp(tok, aware) ==
    [nat |-> FALSE, aware |-> aware, y |-> tok.y, m |-> tok.m, d |-> tok.d, h |-> tok.h]
NaN == [nan |-> TRUE, val |-> 0]
Num(n) == [nan |-> FALSE, val |-> n]

\* pd.to_numeric(series, errors='coerce') on one cell.
ToNumericCoerce(c) == IF c.kind = "num" THEN Num(c.val) ELSE NaN

FillnaOmitted(v) == v
\* Series.fillna(0) on one cell.
Fillna0(v) == IF v.nan THEN Num(0) ELSE v

\* safe_numeric_convert: to_numeric(errors='coerce') never raises, so the
\* except branch is not taken.
safe_numeric_convert(series) ==
    [i \in DOMAIN series |-> Fillna0(ToNumericCoerce(series[i]))]

\* ---------------------------------------------------- parse_timestamp
formats == <<"%Y-%m-%dT%H:%M:%S%z", "%Y-%m-%dT%H:%M:%S+0000",
             "%Y-%m-%dT%H:%M:%S", "%Y-%m-%d %H:%M:%S", "%Y-%m-%d">>

\* Whether pd.to_datetime(ts, format=fmt) accepts the text (it raises
\* otherwise).  %z accepts +0000, so the second format never gets its turn.
FormatAccepts(fmt, tok) ==
    CASE fmt = "%Y-%m-%dT%H:%M:%S%z"    -> tok.fmt = "isoz"
      [] fmt = "%Y-%m-%dT%H:%M:%S+0000" -> tok.fmt = "isoz"
      [] fmt = "%Y-%m-%dT%H:%M:%S"      -> tok.fmt = "iso"
      [] fmt = "%Y-%m-%d %H:%M:%S"      -> tok.fmt = "sp"
      [] fmt = "%Y-%m-%d"               -> tok.fmt = "date"
      [] OTHER                          -> FALSE

\* Only %z yields a timezone-aware Timestamp.
FormatResult(fmt, tok) == Timestamp(tok, fmt = "%Y-%m-%dT%H:%M:%S%z")

\* pd.to_datetime(ts, infer_datetime_format=True): the fallback.
InferDatetime(tok) ==
    IF tok.fmt \in {"isoz", "iso", "sp", "date", "slash"}
    THEN Timestamp(tok, tok.fmt = "isoz")
    ELSE NaT

RECURSIVE TryFormats(_, _)
TryFormats(tok, i) ==
    IF i > Len(formats) THEN InferDatetime(tok)
    ELSE IF FormatAccepts(formats[i], tok) THEN FormatResult(formats[i], tok)
    ELSE TryFormats(tok, i + 1)

parse_timestamp(tok) ==
    IF tok.fmt = "empty" \/ tok.fmt = "hdr" THEN NaT ELSE TryFormats(tok, 1)

\* ---------------------------------------------------------- load_data
\* A table is [ok, rows]: ok = FALSE is the value None.
None == [ok |-> FALSE, rows |-> <<>>]
Table(rows) == [ok |-> TRUE, rows |-> rows]

Column(rows, c) == [i \in DOMAIN rows |-> rows[i][c]]

KeepHeaderRows(rows) == rows
\* df = df[df['timestamp'] != 'timestamp']
DropHeaderRows(rows) == SelectSeq(rows, LAMBDA r : r.timestamp.fmt # "hdr")

\* df['followers_count'] = safe_numeric_convert(df['followers_count'], ...)
ConvertNumericColumns(rows) ==
    LET conv == safe_numeric_convert(Column(rows, "followers_count"))
    IN  [i \in DOMAIN rows |-> [rows[i] EXCEPT !.followers_count = conv[i]]]

\* The table load_data holds once the header rows are dropped and the
\* numeric columns converted (its local df before the timestamps are parsed).
LoadedRaw(csv) == ConvertNumericColumns(DropHeaderRows(csv))

\* df['timestamp_parsed'] = df['timestamp'].apply(parse_timestamp)
WithParsed(rows) ==
    [i \in DOMAIN rows |->
        rows[i] @@ [timestamp_parsed |-> parse_timestamp(rows[i].timestamp)]]

\* df.dropna(subset=['timestamp_parsed'])
DropNaParsed(rows) == SelectSeq(rows, LAMBDA r : ~r.timestamp_parsed.nat)

\* The .dt accessor exists only on a datetime column: a column that mixes
\* timezone-aware and naive Timestamps has dtype object, and .dt raises.
DtRaises(rows) ==
    \E i, j \in DOMAIN rows :
        rows[i].timestamp_parsed.aware /\ ~rows[j].timestamp_parsed.aware

\* year, month, day, hour, weekday, date from timestamp_parsed
WithDateParts(rows) ==
    [i \in DOMAIN rows |->
        LET t == rows[i].timestamp_parsed
        IN  rows[i] @@ [year |-> t.y, month |-> t.m, day |-> t.d, hour |-> t.h,
                        weekday |-> DayName(t.y, t.m, t.d),
                        date |-> [y |-> t.y, m |-> t.m, d |-> t.d]]]

YearFilterNoUpper(rows, current_year) == SelectSeq(rows, LAMBDA r : r.year >= 2010)
\* df_clean[(df_clean['year'] >= 2010) & (df_clean['year'] <= current_year + 1)]
YearFilter(rows, current_year) ==
    SelectSeq(rows, LAMBDA r : r.year >= 2010 /\ r.year <= current_year + 1)

\* pd.to_numeric(df_clean[col], errors='coerce').fillna(0) on a column that
\* is numeric already.
EnsureNumeric(rows) ==
    [i \in DOMAIN rows |->
        [rows[i] EXCEPT !.followers_count = Fillna0(rows[i].followers_count)]]

\* The body of load_data on the content of posts.csv; every exception ends
\* in the except branch, which returns None.
load_data(f, current_year) ==
    IF ~f.exists THEN None
    ELSE LET df_clean == DropNaParsed(WithParsed(LoadedRaw(f.rows)))
         IN  IF df_clean = <<>> THEN None
             ELSE IF DtRaises(df_clean) THEN None
             ELSE Table(EnsureNumeric(YearFilter(WithDateParts(df_clean), current_year)))

\* st.cache_data on a function without arguments: one entry, keyed by the
\* function alone; the value (None too) is stored, and each call gets a copy.
NotCached == [filled |-> FALSE, value |-> None]
Cached(v) == [filled |-> TRUE, value |-> v]

\* ------------------------------------------------------- aggregation
RECURSIVE SortedSeq(_)
\* sorted(...) of a set of integers; groupby sorts its keys the same way.
SortedSeq(S) ==
    IF S = {} THEN <<>>
    ELSE LET lo == CHOOSE x \in S : \A y \in S : x <= y
         IN  <<lo>> \o SortedSeq(S \ {lo})

\* Number of rows whose key is k.
CountKey(keys, k) == Cardinality({i \in DOMAIN keys : keys[i] = k})

KeySet(keys) == {keys[i] : i \in DOMAIN keys}

\* Period('M').ordinal: months since 1970-01.
PeriodM(y, m) == (y - 1970) * 12 + (m - 1)

\* df.groupby('year').size().reset_index(name='posts')
GroupByYear(rows) ==
    LET keys == Column(rows, "year")
        ks   == SortedSeq(KeySet(keys))
    IN  [k \in DOMAIN ks |-> [year |-> ks[k], posts |-> CountKey(keys, ks[k])]]

\* df.groupby('hour').size().reset_index(name='posts')
GroupByHour(rows) ==
    LET keys == Column(rows, "hour")
        ks   == SortedSeq(KeySet(keys))
    IN  [k \in DOMAIN ks |-> [hour |-> ks[k], posts |-> CountKey(keys, ks[k])]]

\* df.groupby(['year', 'month']).size().reset_index(name='posts')
GroupByYearMonth(rows) ==
    LET keys == [i \in DOMAIN rows |-> PeriodM(rows[i].year, rows[i].month)]
        ks   == SortedSeq(KeySet(keys))
    IN  [k \in DOMAIN ks |->
            [year  |-> 1970 + (ks[k] \div 12), month |-> (ks[k] % 12) + 1,
             posts |-> CountKey(keys, ks[k])]]

\* df.groupby('ano_mes').size().reset_index(name='posts')
GroupByAnoMes(rows) ==
    LET keys == Column(rows, "ano_mes")
        ks   == SortedSeq(KeySet(keys))
    IN  [k \in DOMAIN ks |-> [ano_mes |-> ks[k], posts |-> CountKey(keys, ks[k])]]

\* A moving-average value: NaN/None, or the fraction num/den.
NoMean == [nan |-> TRUE, num |-> 0, den |-> 1]

\* Series.rolling(window=3, center=True).mean(): the window of position i is
\* i-1..i+1, and min_periods is the window size, so a window that reaches
\* outside the series gives NaN.
RollingCentered(posts) ==
    [i \in DOMAIN posts |->
        IF i - 1 >= 1 /\ i + 1 <= Len(posts)
        THEN [nan |-> FALSE, num |-> posts[i-1] + posts[i] + posts[i+1], den |-> 3]
        ELSE NoMean]

MediaMovelFrom3(series) ==
    LET mm == IF Len(series) >= 3
              THEN RollingCentered(Column(series, "posts"))
              ELSE [i \in DOMAIN series |-> NoMean]
    IN  [i \in DOMAIN series |-> series[i] @@ [media_movel |-> mm[i]]]
\* if len(posts_por_mes) > 3: the rolling mean, else None
MediaMovel(series) ==
    LET mm == IF Len(series) > 3
              THEN RollingCentered(Column(series, "posts"))
              ELSE [i \in DOMAIN series |-> NoMean]
    IN  [i \in DOMAIN series |-> series[i] @@ [media_movel |-> mm[i]]]

\* pd.to_datetime(df['timestamp'], utc=True, errors='coerce') on the raw
\* column.  Without a format pandas guesses one from the first value; from
\* pandas 2.0 on it then holds every value to that format and, with
\* errors='coerce', gives NaT for the others; before 2.0 each value is
\* parsed on its own.  strict tells which pandas runs.
ToDatetimeUtc(series, strict) ==
    [i \in DOMAIN series |->
        IF strict /\ series[i].fmt # series[1].fmt THEN NaT
        ELSE Timestamp(series[i], TRUE)]

\* 'Pré-Pandemia' if x < PANDEMIA_INICIO else 'Pós-Pandemia'; a comparison
\* with NaT is False.
Periodo(x) ==
    IF ~x.nat /\ UtcHours(x) < PANDEMIA_INICIO THEN "Pre-Pandemia" ELSE "Pos-Pandemia"

\* Series.dt.to_period('M') on one value.
ToPeriodM(x) == IF x.nat THEN -1 ELSE PeriodM(x.y, x.m)

WeekdayCountsPresent(rows) ==
    LET present == SelectSeq(weekday_order,
                             LAMBDA w : \E i \in DOMAIN rows : rows[i].weekday = w)
    IN  [k \in DOMAIN present |-> CountKey(Column(rows, "weekday"), present[k])]
\* df_filtered['weekday'].value_counts().reindex(weekday_order, fill_value=0)
WeekdayCounts(rows) ==
    [k \in DOMAIN weekday_order |->
        CountKey(Column(rows, "weekday"), weekday_order[k])]

\* ------------------------------------------------------------- main
NoMetrics == [shown |-> FALSE, total |-> 0, years_span |-> 0]

\* The state a script run starts from: nothing filtered, computed or drawn.
RunReset ==
    /\ selected_years' = {}
    /\ df_filtered' = <<>>
    /\ metrics' = NoMetrics
    /\ charts' = {}
    /\ errors' = {}
    /\ yearly_posts' = <<>>
    /\ hourly_posts' = <<>>
    /\ heatmap_data' = <<>>
    /\ posts_por_mes' = <<>>
    /\ sizes' = <<0, 0>>
    /\ weekday_posts' = <<>>

CacheHitNever(c) == FALSE
\* st.cache_data: whether the call is answered from the cache.
CacheHit(c) == c.filled

\* df = load_data(), through st.cache_data
RunLoad ==
    /\ pc = "start"
    /\ loads' = loads + 1
    /\ IF CacheHit(cache)
       THEN /\ df' = cache.value
            /\ UNCHANGED <<cache, reads, ld_df>>
       ELSE /\ reads' = reads + 1
            /\ ld_df' = IF file.exists THEN LoadedRaw(file.rows) ELSE <<>>
            /\ df' = load_data(file, CurrentYear)
            /\ cache' = Cached(df')
    /\ pc' = "loaded"
    /\ UNCHANGED <<file, selected_years, df_filtered, metrics, charts, errors,
                   yearly_posts, hourly_posts, heatmap_data, posts_por_mes,
                   sizes, weekday_posts>>

LoadFailedNoneOnly(t) == ~t.ok
\* if df is None or df.empty
LoadFailed(t) == ~t.ok \/ t.rows = <<>>

\* st.error(...); return
ShowLoadError ==
    /\ pc = "loaded"
    /\ LoadFailed(df)
    /\ errors' = errors \cup {"load"}
    /\ pc' = "done"
    /\ UNCHANGED <<file, cache, reads, loads, df, ld_df, selected_years,
                   df_filtered, metrics, charts, yearly_posts, hourly_posts,
                   heatmap_data, posts_por_mes, sizes, weekday_posts>>

years_available(rows) == KeySet(Column(rows, "year"))

MaxOf(S) == CHOOSE x \in S : \A y \in S : y <= x
MinOf(S) == CHOOSE x \in S : \A y \in S : x <= y

\* The sidebar multiselect, the filter and the metrics.
SelectYears ==
    /\ pc = "loaded"
    /\ ~LoadFailed(df)
    /\ \E sel \in SUBSET years_available(df.rows) :
          /\ selected_years' = sel
          /\ df_filtered' = IF sel # {}
                            THEN SelectSeq(df.rows, LAMBDA r : r.year \in sel)
                            ELSE df.rows
    /\ metrics' = [shown |-> TRUE, total |-> Len(df_filtered'),
                   years_span |->
                      IF Len(df_filtered') > 0
                      THEN MaxOf(years_available(df_filtered'))
                           - MinOf(years_available(df_filtered')) + 1
                      ELSE 0]
    /\ pc' = "filtered"
    /\ UNCHANGED <<file, cache, reads, loads, df, ld_df, charts, errors,
                   yearly_posts, hourly_posts, heatmap_data, posts_por_mes,
                   sizes, weekday_posts>>

\* The yearly and hourly bar charts and the heatmap, from df_filtered.
ChartsTop ==
    /\ pc = "filtered"
    /\ yearly_posts' = GroupByYear(df_filtered)
    /\ hourly_posts' = GroupByHour(df_filtered)
    /\ heatmap_data' = GroupByYearMonth(df_filtered)
    /\ charts' = charts \cup {"fig1", "fig2"}
                        \cup (IF heatmap_data' # <<>> THEN {"fig3"} ELSE {})
    /\ pc' = "top"
    /\ UNCHANGED <<file, cache, reads, loads, df, ld_df, selected_years,
                   df_filtered, metrics, errors, posts_por_mes, sizes,
                   weekday_posts>>

\* df_filtered = df (no year selected) names the same table as df.
Alias(rows) == IF selected_years = {} THEN rows ELSE df_filtered

\* df['date'] = pd.to_datetime(df['date']); df['ano_mes'] = ...to_period('M')
MonthlyColumns(rows) ==
    [i \in DOMAIN rows |->
        LET dt == [y |-> rows[i].date.y, m |-> rows[i].date.m,
                   d |-> rows[i].date.d, h |-> 0]
        IN  [rows[i] EXCEPT !.date = dt] @@ [ano_mes |-> PeriodM(dt.y, dt.m)]]

\* The monthly series with its moving average, from the whole table.
ChartMonthly ==
    /\ pc = "top"
    /\ df' = Table(MonthlyColumns(df.rows))
    /\ df_filtered' = Alias(df'.rows)
    /\ posts_por_mes' = MediaMovel(GroupByAnoMes(df'.rows))
    /\ charts' = charts \cup {"fig"}
    /\ pc' = "monthly"
    /\ UNCHANGED <<file, cache, reads, loads, ld_df, selected_years, metrics,
                   errors, yearly_posts, hourly_posts, heatmap_data, sizes,
                   weekday_posts>>

PeriodColumnsDropNaT(rows, strict) ==
    LET ts == ToDatetimeUtc(Column(rows, "timestamp"), strict)
        kept == SelectSeq([i \in DOMAIN rows |-> i], LAMBDA i : ~ts[i].nat)
    IN  [k \in DOMAIN kept |->
            [rows[kept[k]] EXCEPT !.timestamp = ts[kept[k]],
                                  !.ano_mes = ToPeriodM(ts[kept[k]])]
                @@ [periodo |-> Periodo(ts[kept[k]])]]
\* df['timestamp'] = pd.to_datetime(...); df['periodo']; df['ano_mes']
PeriodColumns(rows, strict) ==
    LET ts == ToDatetimeUtc(Column(rows, "timestamp"), strict)
    IN  [i \in DOMAIN rows |->
            [rows[i] EXCEPT !.timestamp = ts[i], !.ano_mes = ToPeriodM(ts[i])]
                @@ [periodo |-> Periodo(ts[i])]]

\* The pre/post-pandemic pie chart, from the whole table.
ChartPie ==
    /\ pc = "monthly"
    /\ \E strict \in BOOLEAN : df' = Table(PeriodColumns(df.rows, strict))
    /\ df_filtered' = Alias(df'.rows)
    /\ sizes' = <<Len(SelectSeq(df'.rows, LAMBDA r : r.periodo = "Pre-Pandemia")),
                  Len(SelectSeq(df'.rows, LAMBDA r : r.periodo = "Pos-Pandemia"))>>
    /\ charts' = charts \cup (IF sizes'[1] + sizes'[2] > 0 THEN {"fig_pizza"} ELSE {})
    /\ pc' = "pie"
    /\ UNCHANGED <<file, cache, reads, loads, ld_df, selected_years, metrics,
                   errors, yearly_posts, hourly_posts, heatmap_data,
                   posts_por_mes, weekday_posts>>

\* The weekday bar chart, from df_filtered; main returns.
ChartWeekday ==
    /\ pc = "pie"
    /\ weekday_posts' = WeekdayCounts(df_filtered)
    /\ charts' = charts \cup {"fig6"}
    /\ pc' = "done"
    /\ UNCHANGED <<file, cache, reads, loads, df, ld_df, selected_years,
                   df_filtered, metrics, errors, yearly_posts, hourly_posts,
                   heatmap_data, posts_por_mes, sizes>>

\* The next interaction reruns the script from the top, in the same process.
Rerun ==
    /\ pc = "done"
    /\ loads < MaxLoads
    /\ pc' = "start"
    /\ df' = None
    /\ RunReset
    /\ UNCHANGED <<file, cache, reads, loads, ld_df>>

\* ---------------------------------------------------------- posts.csv
Tok(fmt, y, m, d, h) == [fmt |-> fmt, y |-> y, m |-> m, d |-> d, h |-> h]
Cell(kind, val) == [kind |-> kind, val |-> val]
Row(tok, cell) == [timestamp |-> tok, followers_count |-> cell]

\* The timestamps of the view specification: the four of the pre/post
\* example (2020-03-01 written as a date, so at the boundary instant), a
\* fifth month, a year past current_year + 1, and text that is no
\* timestamp.
ViewRows ==
    {Row(t, Cell("num", 10)) :
        t \in {Tok("iso", 2019, 1, 1, 10), Tok("iso", 2019, 12, 31, 23),
               Tok("iso", 2020, 2, 15, 23), Tok("date", 2020, 3, 1, 0),
               Tok("iso", 2021, 6, 1, 10),
               Tok("iso", CurrentYear + 2, 1, 1, 0), Tok("junk", 0, 0, 0, 0)}}

\* The rows of the loader specification: every shape of timestamp cell, the
\* years on both sides of each end of the accepted range, every kind of
\* followers_count cell (each with a timestamp of its own), and a repeated
\* header line.
LoadRows ==
    {Row(t, Cell("num", 10)) :
        t \in {Tok("empty", 0, 0, 0, 0), Tok("junk", 0, 0, 0, 0),
               Tok("isoz", 2021, 6, 1, 10), Tok("sp", 2009, 12, 31, 23),
               Tok("date", 2010, 1, 1, 0),
               Tok("iso", CurrentYear + 1, 12, 31, 23),
               Tok("slash", CurrentYear + 2, 1, 1, 0)}}
    \cup {Row(Tok("iso", 2019, 1, 1, 10), Cell("num", 25)),
          Row(Tok("iso", 2019, 1, 1, 11), Cell("num", -5)),
          Row(Tok("iso", 2019, 1, 1, 12), Cell("text", 0)),
          Row(Tok("iso", 2019, 1, 1, 13), Cell("empty", 0))}
    \cup {Row(Tok("hdr", 0, 0, 0, 0), Cell("text", 0))}

CacheRows ==
    {Row(t, Cell("num", 10)) :
        t \in {Tok("iso", 2019, 1, 1, 10), Tok("iso", 2021, 6, 1, 10),
               Tok("junk", 0, 0, 0, 0)}}

SeqsUpTo(S, n) == UNION {[1..k -> S] : k \in 0..n}

\* posts.csv: missing, or a header line and rows.
Files(S, n) ==
    {[exists |-> FALSE, rows |-> <<>>]}
    \cup {[exists |-> TRUE, rows |-> r] : r \in SeqsUpTo(S, n)}

\* ------------------------------------------------------ specifications
\* A fresh process: nothing cached, the script about to run.
InitWith(files) ==
    /\ file \in files
    /\ cache = NotCached
    /\ reads = 0
    /\ loads = 0
    /\ pc = "start"
    /\ df = None
    /\ ld_df = <<>>
    /\ selected_years = {}
    /\ df_filtered = <<>>
    /\ metrics = NoMetrics
    /\ charts = {}
    /\ errors = {}
    /\ yearly_posts = <<>>
    /\ hourly_posts = <<>>
    /\ heatmap_data = <<>>
    /\ posts_por_mes = <<>>
    /\ sizes = <<0, 0>>
    /\ weekday_posts = <<>>

\* posts.csv is replaced by another file, between two runs (a change during
\* a run is seen by the next call of load_data just as one made after it).
EditFile ==
    /\ pc \in {"start", "done"}
    /\ \E f \in Files(CacheRows, MaxCacheRows) : f # file /\ file' = f
    /\ UNCHANGED <<cache, reads, loads, pc, df, ld_df, selected_years,
                   df_filtered, metrics, charts, errors, yearly_posts,
                   hourly_posts, heatmap_data, posts_por_mes, sizes,
                   weekday_posts>>

Init == InitWith(Files(ViewRows, MaxRows))
InitLoad == InitWith(Files(LoadRows, MaxLoadRows))
InitCache == InitWith(Files(CacheRows, MaxCacheRows))

\* One run of main.
Next ==
    \/ RunLoad
    \/ ShowLoadError
    \/ SelectYears
    \/ ChartsTop
    \/ ChartMonthly
    \/ ChartPie
    \/ ChartWeekday

\* Runs of main in one process, over a file that may change.
NextCache ==
    \/ Next
    \/ Rerun
    \/ EditFile

\* The view: one run over any file of ViewRows.
Spec == Init /\ [][Next]_vars
\* The loader: one run over any file of LoadRows.
SpecLoad == InitLoad /\ [][Next]_vars
\* The cache: reruns and file changes.
SpecCache == InitCache /\ [][NextCache]_vars

\* -------------------------------------------------------------- claims
\* What the claims are stated against: a timestamp cell some parser reads,
\* and the accepted range of years.
Parseable(tok) == tok.fmt \in {"isoz", "iso", "sp", "date", "slash"}
InRange(y) == 2010 <= y /\ y <= CurrentYear + 1

RECURSIVE SumSeq(_)
SumSeq(s) == IF s = <<>> THEN 0 ELSE Head(s) + SumSeq(Tail(s))
SumPosts(s) == SumSeq([k \in DOMAIN s |-> s[k].posts])

\* Rows of posts.csv that parse, lie in the accepted range and, with a
\* year selection, are of a selected year.
ValidRows(sel) ==
    Cardinality({j \in DOMAIN file.rows :
        /\ Parseable(file.rows[j].timestamp)
        /\ InRange(file.rows[j].timestamp.y)
        /\ (sel = {} \/ file.rows[j].timestamp.y \in sel)})

\* The timestamp column still holds the text of posts.csv.
RawTimestamps == pc \in {"loaded", "filtered", "top", "monthly"} /\ df.ok

\* C1: load_data never returns an empty table: when no row survives the
\* cleaning, it returns None.
C1_NeverEmptyTable == (pc # "start" /\ df.ok) => df.rows # <<>>

\* C2 as stated: in the returned table followers_count is never NaN and
\* never negative.
C2_FollowersNonNegative ==
    (pc = "loaded" /\ df.ok) =>
        \A i \in DOMAIN df.rows :
            ~df.rows[i].followers_count.nan /\ df.rows[i].followers_count.val >= 0

\* C2 as amended: in the returned table followers_count is never NaN; it is
\* the number of the raw cell when that is a number (a negative one too),
\* and 0 when the raw cell is text or empty.
C2_FollowersNumeric ==
    RawTimestamps =>
        \A i \in DOMAIN df.rows :
            /\ ~df.rows[i].followers_count.nan
            /\ \E j \in DOMAIN file.rows :
                  /\ file.rows[j].timestamp = df.rows[i].timestamp
                  /\ df.rows[i].followers_count.val =
                        IF file.rows[j].followers_count.kind = "num"
                        THEN file.rows[j].followers_count.val
                        ELSE 0

\* A table was returned that holds a negative count and a count defaulted
\* from text.
C2_Witness ==
    /\ pc = "loaded" /\ df.ok
    /\ \E i \in DOMAIN df.rows : df.rows[i].followers_count.val = -5
    /\ \E i \in DOMAIN df.rows :
          df.rows[i].timestamp.h = 12 /\ df.rows[i].followers_count.val = 0

\* C3: every row of the returned table has 2010 <= year <= current_year+1,
\* and each of the six aggregations counts exactly the rows of posts.csv
\* that parse and lie in that range (of the selected years, for the four
\* that use the year filter): none outside the range is counted.
C3_YearRange ==
    /\ (pc # "start" /\ df.ok) => \A i \in DOMAIN df.rows : InRange(df.rows[i].year)
    /\ \A k \in DOMAIN yearly_posts : InRange(yearly_posts[k].year)
    /\ \A k \in DOMAIN heatmap_data : InRange(heatmap_data[k].year)
    /\ \A k \in DOMAIN posts_por_mes : InRange(1970 + (posts_por_mes[k].ano_mes \div 12))
    /\ "fig1" \in charts =>
          /\ SumPosts(yearly_posts) = ValidRows(selected_years)
          /\ SumPosts(hourly_posts) = ValidRows(selected_years)
          /\ SumPosts(heatmap_data) = ValidRows(selected_years)
    /\ "fig" \in charts => SumPosts(posts_por_mes) = ValidRows({})
    /\ "fig_pizza" \in charts => sizes[1] + sizes[2] = ValidRows({})
    /\ "fig6" \in charts => SumSeq(weekday_posts) = ValidRows(selected_years)

\* A run ended with all charts drawn over a file that holds a parseable row
\* outside the range.
C3_Witness ==
    /\ pc = "done" /\ "fig6" \in charts
    /\ \E j \in DOMAIN file.rows :
          Parseable(file.rows[j].timestamp) /\ ~InRange(file.rows[j].timestamp.y)

\* C4 as stated: a load returns the table of the file as it is now (a load
\* after a change of the file recomputes it).
C4_ReloadsChangedFile == pc = "loaded" => df = load_data(file, CurrentYear)

\* C4 as amended: posts.csv is read by the first load of the process and by
\* no later one; every later load returns the cached result, whether or not
\* the file has changed since.
C4_CachedOnce ==
    /\ reads = (IF loads = 0 THEN 0 ELSE 1)
    /\ cache.filled = (loads > 0)
    /\ pc = "loaded" => df = cache.value
    /\ \A i \in DOMAIN cache.value.rows :
          \E j \in DOMAIN ld_df : ld_df[j].timestamp = cache.value.rows[i].timestamp

\* A second load returned a table that is not the table of the file as it
\* is now, without reading the file.
C4_Witness ==
    /\ pc = "loaded" /\ loads = 2 /\ reads = 1
    /\ df.ok /\ df # load_data(file, CurrentYear)

\* C5 as stated: through a run the table load_data returned keeps its
\* columns and its values.
C5_TableUnchanged == pc # "start" => df = cache.value

CoreColumns == {"followers_count", "timestamp_parsed", "year", "month", "day",
                "hour", "weekday"}

\* C5 as amended: the year filter and the yearly, hourly and heatmap
\* aggregations leave the table as returned; the monthly series and the
\* pre/post split overwrite its columns date and timestamp and add ano_mes
\* and periodo, and change nothing else: the rows, their order and the
\* values of the other columns stay.
C5_CoreColumnsKept ==
    (pc # "start" /\ df.ok) =>
        /\ Len(df.rows) = Len(cache.value.rows)
        /\ \A i \in DOMAIN df.rows :
              LET a == df.rows[i]
                  b == cache.value.rows[i]
              IN  /\ \A c \in CoreColumns : a[c] = b[c]
                  /\ DOMAIN b \subseteq DOMAIN a
                  /\ DOMAIN a \subseteq DOMAIN b \cup {"ano_mes", "periodo"}
                  /\ pc \in {"loaded", "filtered", "top"} => a = b
                  /\ pc = "monthly" => a.timestamp = b.timestamp

\* A run with a year selected ended with the table changed.
C5_Witness ==
    /\ pc = "done" /\ df.ok /\ selected_years # {}
    /\ Len(df.rows) >= 2 /\ df # cache.value
    /\ "periodo" \in DOMAIN df.rows[1]

\* C6: the pre count is the number of rows of the cleaned table whose parsed
\* timestamp is before 2020-03-01T00:00:00Z, the post count the number of
\* the others, and the two add up to the number of rows.
C6_PrePostSplit ==
    (pc \in {"pie", "done"} /\ df.ok) =>
        /\ sizes[1] = Cardinality({i \in DOMAIN df.rows :
                          UtcHours(df.rows[i].timestamp_parsed) < PANDEMIA_INICIO})
        /\ sizes[2] = Cardinality({i \in DOMAIN df.rows :
                          UtcHours(df.rows[i].timestamp_parsed) >= PANDEMIA_INICIO})
        /\ sizes[1] + sizes[2] = Len(df.rows)

\* C7: when load_data fails or returns an empty table, the run draws no
\* chart, applies no filter and shows no metric: it shows the error and ends.
C7_NoChartOnFailedLoad ==
    (pc # "start" /\ (~df.ok \/ df.rows = <<>>)) =>
        /\ charts = {}
        /\ ~metrics.shown
        /\ selected_years = {} /\ df_filtered = <<>>
        /\ pc \in {"loaded", "done"}
        /\ pc = "done" => "load" \in errors

\* A run over an empty table ended with the error shown.
C7_Witness == pc = "done" /\ df.ok /\ df.rows = <<>> /\ "load" \in errors

\* C8: the monthly series is in chronological order and counts the rows of
\* each month; with 3 periods or fewer no moving average is defined, with
\* more it is defined at every period but the first and the last, as the
\* mean of the period's count and its two neighbours'.
C8_MovingAverage ==
    "fig" \in charts =>
        LET s == posts_por_mes
            n == Len(posts_por_mes)
        IN  /\ \A i \in 1..(n - 1) : s[i].ano_mes < s[i+1].ano_mes
            /\ \A i \in 1..n :
                  s[i].posts = Cardinality({j \in DOMAIN df.rows :
                      PeriodM(df.rows[j].year, df.rows[j].month) = s[i].ano_mes})
            /\ n <= 3 => \A i \in 1..n : s[i].media_movel.nan
            /\ n > 3 =>
                  \A i \in 1..n :
                      /\ s[i].media_movel.nan <=> i \in {1, n}
                      /\ i \notin {1, n} =>
                            /\ s[i].media_movel.den = 3
                            /\ s[i].media_movel.num =
                                  s[i-1].posts + s[i].posts + s[i+1].posts

\* A series of four periods, whose second has a mean and whose first has none.
C8_Witness ==
    /\ pc = "done" /\ Len(posts_por_mes) = 4
    /\ posts_por_mes[1].media_movel.nan
    /\ ~posts_por_mes[2].media_movel.nan
    /\ posts_por_mes[2].media_movel.num >= 3

\* C9: the weekday output has seven entries, Monday first; each is the
\* number of rows of the year-filtered subset on that weekday, 0 when there
\* is none, and they add up to the number of filtered rows.
C9_WeekdayCounts ==
    "fig6" \in charts =>
        LET days == <<"Monday", "Tuesday", "Wednesday", "Thursday", "Friday",
                      "Saturday", "Sunday">>
        IN  /\ Len(weekday_posts) = 7
            /\ \A k \in 1..7 :
                  weekday_posts[k] = Cardinality({i \in DOMAIN df.rows :
                      /\ selected_years = {} \/ df.rows[i].year \in selected_years
                      /\ df.rows[i].weekday = days[k]})
            /\ SumSeq(weekday_posts) = metrics.total
            /\ \A i \in DOMAIN df.rows :
                  /\ df.rows[i].date = [y |-> 2020, m |-> 3, d |-> 1, h |-> 0]
                        => df.rows[i].weekday = "Sunday"
                  /\ df.rows[i].date = [y |-> 2019, m |-> 1, d |-> 1, h |-> 0]
                        => df.rows[i].weekday = "Tuesday"

\* A filtered run with posts on Tuesday and none on Sunday.
C9_Witness ==
    /\ pc = "done" /\ "fig6" \in charts /\ selected_years # {}
    /\ Len(df_filtered) < Len(df.rows)
    /\ weekday_posts[2] >= 1 /\ weekday_posts[7] = 0

\* C10: a row whose timestamp is the text timestamp is dropped, and only
\* such a row, before anything else is done with the file; no such row is in
\* the returned table, wherever and however often the file holds one.
C10_HeaderRowsDropped ==
    /\ \A j \in DOMAIN ld_df : ld_df[j].timestamp.fmt # "hdr"
    /\ (reads = 1 /\ file.exists) =>
          Len(ld_df) = Cardinality({j \in DOMAIN file.rows :
                                      file.rows[j].timestamp.fmt # "hdr"})
    /\ RawTimestamps => \A i \in DOMAIN df.rows : df.rows[i].timestamp.fmt # "hdr"

\* A table was returned from a file with a header line between two rows.
C10_Witness ==
    /\ pc = "loaded" /\ df.ok /\ Len(df.rows) = 2
    /\ Len(file.rows) = 3 /\ file.rows[2].timestamp.fmt = "hdr"

====
